---------------------------- MODULE Spec2Model ----------------------------
(***************************************************************************)
(* A model of Labmaterial/GLprimer.cpp: the 4x4 matrix functions           *)
(* (mat4mult, mat4identity, mat4rotx/y/z, mat4scale, mat4translate,        *)
(* mat4perspective) and the render loop of main() that calls them.         *)
(*                                                                         *)
(* A float is modelled as an exact rational <<n, d>> in lowest terms with  *)
(* d > 0, so the arithmetic is the exact arithmetic a float approximates.  *)
(* A float[16] buffer is a function 0..15 -> rational, and the memory is a  *)
(* function from buffer names to buffers: the matrix functions take the    *)
(* names of their argument buffers, as the C functions take pointers, so   *)
(* that two arguments may be the same buffer.                              *)
(*                                                                         *)
(* An angle is given by the tangent of its half (a rational t), or is pi:  *)
(* cos = (1 - t^2)/(1 + t^2), sin = 2t/(1 + t^2), which are the exact      *)
(* values of math.h's cos and sin at the angles with rational sine and     *)
(* cosine (t = 0: 0, t = 1: pi/2, t = -1: 3pi/2, t = 2: cos -3/5 sin 4/5). *)
(***************************************************************************)
EXTENDS Integers, Sequences, FiniteSets, TLC

VARIABLES
  mem,      \* buffer name -> float[16]: the matrices of main(), or of a caller
  pc,       \* the position of main(), or of the caller of one matrix function
  call,     \* the last call of a matrix function by the caller (SpecOps)
  mouse,    \* myMouseRotator: [phi, theta]
  key,      \* myKeyRotator: [phi, theta]
  time,     \* main()'s variable time, used as an angle
  uni       \* the shader's uniforms LV, MV, P as last uploaded

vars == <<mem, pc, call, mouse, key, time, uni>>

----------------------------------------------------------------------------
(* Bounds of the model *)

\* Input angles have half-angle tangents -MaxTan..MaxTan, plus pi.
MaxTan == 1
\* The caller's input matrices are InputMat(0) .. InputMat(MaxSeed).
MaxSeed == 2
\* The rotators deliver angles with half-angle tangents 0..MaxPoll.
MaxPoll == 2
\* Scalar arguments (scale factors, translations) are -MaxVal..MaxVal.
MaxVal == 1
\* The clock delivers angles with half-angle tangents 0..MaxClock.
MaxClock == 1

----------------------------------------------------------------------------
(* Exact arithmetic standing for float arithmetic *)

Abs(n) == IF n < 0 THEN -n ELSE n

RECURSIVE GCD(_, _)
GCD(a, b) == IF b = 0 THEN a ELSE GCD(b, a % b)

\* n/d in lowest terms with a positive denominator (d # 0).
Norm(n, d) ==
  LET g == GCD(Abs(n), Abs(d))
      s == IF d < 0 THEN -1 ELSE 1
  IN  <<(s * n) \div g, (s * d) \div g>>

Rat(n) == <<n, 1>>

RAdd(p, q) == Norm(p[1] * q[2] + q[1] * p[2], p[2] * q[2])
RMul(p, q) == Norm(p[1] * q[1], p[2] * q[2])
RNeg(p)    == <<-p[1], p[2]>>
RSub(p, q) == RAdd(p, RNeg(q))
RDiv(p, q) == Norm(p[1] * q[2], p[2] * q[1])

----------------------------------------------------------------------------
(* Angles and math.h *)

AngleOfTan(t) == [isPi |-> FALSE, t |-> t]
Pi == [isPi |-> TRUE, t |-> Rat(0)]

cos(angle) ==
  IF angle.isPi THEN Rat(-1)
  ELSE LET tt == RMul(angle.t, angle.t)
       IN  RDiv(RSub(Rat(1), tt), RAdd(Rat(1), tt))

sin(angle) ==
  IF angle.isPi THEN Rat(0)
  ELSE LET tt == RMul(angle.t, angle.t)
       IN  RDiv(RMul(Rat(2), angle.t), RAdd(Rat(1), tt))

\* tan(vfov/2) for an angle vfov other than pi
tanHalf(vfov) == vfov.t

\* M_PI/2 and M_PI/6 of main(); tan(pi/12) = 2 - sqrt(3) is taken as 15/56.
HalfPi == AngleOfTan(Rat(1))
SixthPi == AngleOfTan(<<15, 56>>)

----------------------------------------------------------------------------
(* The matrix functions *)

Idx == 0..15

\* M1[i0]*M2[j0] + M1[i1]*M2[j1] + M1[i2]*M2[j2] + M1[i3]*M2[j3]
Sum4(M1, M2, i0, j0, i1, j1, i2, j2, i3, j3) ==
  RAdd(RAdd(RAdd(RMul(M1[i0], M2[j0]), RMul(M1[i1], M2[j1])),
            RMul(M1[i2], M2[j2])),
       RMul(M1[i3], M2[j3]))

\* A mat4mult that writes each element to Mout as it is computed, in the
\* order of the source's lines, with no temporary.
RECURSIVE InPlaceFrom(_, _, _, _, _)
InPlaceFrom(m, M1, M2, Mout, k) ==
  IF k > 16 THEN m
  ELSE LET order == <<0, 4, 8, 12, 1, 5, 9, 13, 2, 6, 10, 14, 3, 7, 11, 15>>
           i == order[k]
           r == i % 4
           c == i \div 4
           v == Sum4(m[M1], m[M2], r, 4 * c, 4 + r, 4 * c + 1,
                     8 + r, 4 * c + 2, 12 + r, 4 * c + 3)
       IN  InPlaceFrom([m EXCEPT ![Mout][i] = v], M1, M2, Mout, k + 1)

mat4mult_inplace(m, M1, M2, Mout) == InPlaceFrom(m, M1, M2, Mout, 1)

\* A mat4mult with one wrong index: Mtemp[9] reads M2[10] for M2[9].
mat4mult_typo(m, M1, M2, Mout) ==
  LET a == m[M1]
      b == m[M2]
      Mtemp ==
        (0  :> Sum4(a, b, 0, 0,  4, 1,  8, 2,  12, 3)) @@
        (4  :> Sum4(a, b, 0, 4,  4, 5,  8, 6,  12, 7)) @@
        (8  :> Sum4(a, b, 0, 8,  4, 9,  8, 10, 12, 11)) @@
        (12 :> Sum4(a, b, 0, 12, 4, 13, 8, 14, 12, 15)) @@
        (1  :> Sum4(a, b, 1, 0,  5, 1,  9, 2,  13, 3)) @@
        (5  :> Sum4(a, b, 1, 4,  5, 5,  9, 6,  13, 7)) @@
        (9  :> Sum4(a, b, 1, 8,  5, 10, 9, 10, 13, 11)) @@
        (13 :> Sum4(a, b, 1, 12, 5, 13, 9, 14, 13, 15)) @@
        (2  :> Sum4(a, b, 2, 0,  6, 1,  10, 2,  14, 3)) @@
        (6  :> Sum4(a, b, 2, 4,  6, 5,  10, 6,  14, 7)) @@
        (10 :> Sum4(a, b, 2, 8,  6, 9,  10, 10, 14, 11)) @@
        (14 :> Sum4(a, b, 2, 12, 6, 13, 10, 14, 14, 15)) @@
        (3  :> Sum4(a, b, 3, 0,  7, 1,  11, 2,  15, 3)) @@
        (7  :> Sum4(a, b, 3, 4,  7, 5,  11, 6,  15, 7)) @@
        (11 :> Sum4(a, b, 3, 8,  7, 9,  11, 10, 15, 11)) @@
        (15 :> Sum4(a, b, 3, 12, 7, 13, 11, 14, 15, 15))
  IN  [m EXCEPT ![Mout] = [i \in Idx |-> Mtemp[i]]]

\* void mat4mult(float M1[], float M2[], float Mout[]): the sixteen sums go
\* to the local Mtemp, and the loop then copies Mtemp to Mout.
mat4mult(m, M1, M2, Mout) ==
  LET a == m[M1]
      b == m[M2]
      Mtemp ==
        (0  :> Sum4(a, b, 0, 0,  4, 1,  8, 2,  12, 3)) @@
        (4  :> Sum4(a, b, 0, 4,  4, 5,  8, 6,  12, 7)) @@
        (8  :> Sum4(a, b, 0, 8,  4, 9,  8, 10, 12, 11)) @@
        (12 :> Sum4(a, b, 0, 12, 4, 13, 8, 14, 12, 15)) @@
        (1  :> Sum4(a, b, 1, 0,  5, 1,  9, 2,  13, 3)) @@
        (5  :> Sum4(a, b, 1, 4,  5, 5,  9, 6,  13, 7)) @@
        (9  :> Sum4(a, b, 1, 8,  5, 9,  9, 10, 13, 11)) @@
        (13 :> Sum4(a, b, 1, 12, 5, 13, 9, 14, 13, 15)) @@
        (2  :> Sum4(a, b, 2, 0,  6, 1,  10, 2,  14, 3)) @@
        (6  :> Sum4(a, b, 2, 4,  6, 5,  10, 6,  14, 7)) @@
        (10 :> Sum4(a, b, 2, 8,  6, 9,  10, 10, 14, 11)) @@
        (14 :> Sum4(a, b, 2, 12, 6, 13, 10, 14, 14, 15)) @@
        (3  :> Sum4(a, b, 3, 0,  7, 1,  11, 2,  15, 3)) @@
        (7  :> Sum4(a, b, 3, 4,  7, 5,  11, 6,  15, 7)) @@
        (11 :> Sum4(a, b, 3, 8,  7, 9,  11, 10, 15, 11)) @@
        (15 :> Sum4(a, b, 3, 12, 7, 13, 11, 14, 15, 15))
  IN  [m EXCEPT ![Mout] = [i \in Idx |-> Mtemp[i]]]

\* A mat4identity that sets the diagonal only.
mat4identity_diag(m, M) ==
  [m EXCEPT ![M][0] = Rat(1), ![M][5] = Rat(1), ![M][10] = Rat(1),
            ![M][15] = Rat(1)]

\* void mat4identity(float M[])
mat4identity(m, M) ==
  [m EXCEPT ![M] =
     (0  :> Rat(1)) @@ (1  :> Rat(0)) @@ (2  :> Rat(0)) @@ (3  :> Rat(0)) @@
     (4  :> Rat(0)) @@ (5  :> Rat(1)) @@ (6  :> Rat(0)) @@ (7  :> Rat(0)) @@
     (8  :> Rat(0)) @@ (9  :> Rat(0)) @@ (10 :> Rat(1)) @@ (11 :> Rat(0)) @@
     (12 :> Rat(0)) @@ (13 :> Rat(0)) @@ (14 :> Rat(0)) @@ (15 :> Rat(1))]

\* void mat4rotx(float M[], float angle)
mat4rotx(m, M, angle) ==
  [mat4identity(m, M) EXCEPT
     ![M][5] = cos(angle),
     ![M][6] = sin(angle),
     ![M][9] = RNeg(sin(angle)),
     ![M][10] = cos(angle)]

\* A mat4roty with the signs of the two sines exchanged.
mat4roty_sign(m, M, angle) ==
  [mat4identity(m, M) EXCEPT
     ![M][0] = cos(angle),
     ![M][2] = sin(angle),
     ![M][8] = sin(angle),
     ![M][10] = cos(angle)]

\* void mat4roty(float M[], float angle)
mat4roty(m, M, angle) ==
  [mat4identity(m, M) EXCEPT
     ![M][0] = cos(angle),
     ![M][2] = RNeg(sin(angle)),
     ![M][8] = sin(angle),
     ![M][10] = cos(angle)]

\* void mat4rotz(float M[], float angle)
mat4rotz(m, M, angle) ==
  [mat4identity(m, M) EXCEPT
     ![M][0] = cos(angle),
     ![M][1] = sin(angle),
     ![M][4] = RNeg(sin(angle)),
     ![M][5] = cos(angle)]

\* A mat4scale that leaves the homogeneous element at 1.
mat4scale_w1(m, M, scale) ==
  [mat4identity(m, M) EXCEPT
     ![M][0] = scale,
     ![M][5] = scale,
     ![M][10] = scale]

\* void mat4scale(float M[], float scale)
mat4scale(m, M, scale) ==
  [mat4identity(m, M) EXCEPT
     ![M][0] = scale,
     ![M][5] = scale,
     ![M][10] = scale,
     ![M][15] = scale]

\* A mat4translate that puts the translation in the last row.
mat4translate_row(m, M, x, y, z) ==
  [mat4identity(m, M) EXCEPT
     ![M][3] = x,
     ![M][7] = y,
     ![M][11] = z]

\* void mat4translate(float M[], float x, float y, float z)
mat4translate(m, M, x, y, z) ==
  [mat4identity(m, M) EXCEPT
     ![M][12] = x,
     ![M][13] = y,
     ![M][14] = z]

\* A mat4perspective that does not clear the homogeneous element.
mat4perspective_w1(m, M, vfov, aspect, znear, zfar) ==
  LET f == RDiv(Rat(1), tanHalf(vfov))
  IN  [mat4identity(m, M) EXCEPT
         ![M][0] = RDiv(f, aspect),
         ![M][5] = f,
         ![M][10] = RNeg(RDiv(RAdd(zfar, znear), RSub(zfar, znear))),
         ![M][11] = Rat(-1),
         ![M][14] = RNeg(RDiv(RMul(RMul(Rat(2), zfar), znear),
                              RSub(zfar, znear)))]

\* void mat4perspective(float M[], float vfov, float aspect, float znear,
\*                      float zfar)
mat4perspective(m, M, vfov, aspect, znear, zfar) ==
  LET f == RDiv(Rat(1), tanHalf(vfov))
  IN  [mat4identity(m, M) EXCEPT
         ![M][0] = RDiv(f, aspect),
         ![M][5] = f,
         ![M][10] = RNeg(RDiv(RAdd(zfar, znear), RSub(zfar, znear))),
         ![M][11] = Rat(-1),
         ![M][14] = RNeg(RDiv(RMul(RMul(Rat(2), zfar), znear),
                              RSub(zfar, znear))),
         ![M][15] = Rat(0)]

----------------------------------------------------------------------------
(* Inputs *)

\* A dense matrix of small integers, one for each seed.
InputMat(s) ==
  [i \in Idx |-> Rat((((s + 1) * i * i + 3 * i + s * s + (i \div 4) * s) % 5) - 2)]

InputMats == {InputMat(s) : s \in 0..MaxSeed}

Angles == {AngleOfTan(Rat(t)) : t \in -MaxTan..MaxTan} \cup {Pi}

Scalars == {Rat(v) : v \in -MaxVal..MaxVal}

\* The translations of main() and of the spec's scenario, and small ones.
TransArgs ==
  {<<Rat(x), Rat(x + 1), Rat(x + 2)>> : x \in -MaxVal..MaxVal}
    \cup {<<Rat(0), Rat(0), Rat(-5)>>, <<Rat(0), Rat(0), <<-6, 5>>>>}

\* mat4perspective's arguments: vfov in (0, pi), aspect > 0, zfar # znear.
FovAngles == {a \in Angles \cup {SixthPi} : ~a.isPi /\ a.t[1] > 0}
Aspects == {Rat(v) : v \in 1..MaxVal + 1}
DepthVals == {<<1, 10>>, Rat(100), Rat(MaxVal)}
Depths == {d \in DepthVals \X DepthVals : d[1] # d[2]}

----------------------------------------------------------------------------
(* A caller of one matrix function: three buffers A, B, C hold any input   *)
(* matrices, and one function is called on them, with any of the buffers   *)
(* as each argument.                                                       *)

OpBufs == {"A", "B", "C"}

ZeroAngle == AngleOfTan(Rat(0))

ZeroMat == [i \in Idx |-> Rat(0)]

NoCall ==
  [op |-> "none", out |-> "", in1 |-> "", in2 |-> "", angle |-> ZeroAngle,
   args |-> <<>>, pre |-> <<>>]

Called(op, out, in1, in2, angle, args) ==
  /\ call' = [op |-> op, out |-> out, in1 |-> in1, in2 |-> in2,
              angle |-> angle, args |-> args, pre |-> mem]
  /\ pc' = "returned"
  /\ UNCHANGED <<mouse, key, time, uni>>

InitOps ==
  /\ mem \in [OpBufs -> InputMats]
  /\ pc = "ready"
  /\ call = NoCall
  /\ mouse = [phi |-> ZeroAngle, theta |-> ZeroAngle]
  /\ key = [phi |-> ZeroAngle, theta |-> ZeroAngle]
  /\ time = ZeroAngle
  /\ uni = [LV |-> ZeroMat, MV |-> ZeroMat, P |-> ZeroMat]

CallMult ==
  /\ pc = "ready"
  /\ \E M1 \in OpBufs, M2 \in OpBufs, Mout \in OpBufs :
       /\ mem' = mat4mult(mem, M1, M2, Mout)
       /\ Called("mat4mult", Mout, M1, M2, ZeroAngle, <<>>)

CallIdentity ==
  /\ pc = "ready"
  /\ \E M \in OpBufs :
       /\ mem' = mat4identity(mem, M)
       /\ Called("mat4identity", M, "", "", ZeroAngle, <<>>)

CallRotx ==
  /\ pc = "ready"
  /\ \E M \in OpBufs, angle \in Angles :
       /\ mem' = mat4rotx(mem, M, angle)
       /\ Called("mat4rotx", M, "", "", angle, <<>>)

CallRoty ==
  /\ pc = "ready"
  /\ \E M \in OpBufs, angle \in Angles :
       /\ mem' = mat4roty(mem, M, angle)
       /\ Called("mat4roty", M, "", "", angle, <<>>)

CallRotz ==
  /\ pc = "ready"
  /\ \E M \in OpBufs, angle \in Angles :
       /\ mem' = mat4rotz(mem, M, angle)
       /\ Called("mat4rotz", M, "", "", angle, <<>>)

CallScale ==
  /\ pc = "ready"
  /\ \E M \in OpBufs, scale \in Scalars :
       /\ mem' = mat4scale(mem, M, scale)
       /\ Called("mat4scale", M, "", "", ZeroAngle, <<scale>>)

CallTranslate ==
  /\ pc = "ready"
  /\ \E M \in OpBufs, t \in TransArgs :
       /\ mem' = mat4translate(mem, M, t[1], t[2], t[3])
       /\ Called("mat4translate", M, "", "", ZeroAngle, t)

CallPerspective ==
  /\ pc = "ready"
  /\ \E M \in OpBufs, vfov \in FovAngles, aspect \in Aspects, d \in Depths :
       /\ mem' = mat4perspective(mem, M, vfov, aspect, d[1], d[2])
       /\ Called("mat4perspective", M, "", "", vfov, <<aspect, d[1], d[2]>>)

NextOps ==
  \/ CallMult
  \/ CallIdentity
  \/ CallRotx
  \/ CallRoty
  \/ CallRotz
  \/ CallScale
  \/ CallTranslate
  \/ CallPerspective

SpecOps == InitOps /\ [][NextOps]_vars

----------------------------------------------------------------------------
(* Reference values the claims are stated with *)

\* The element at row r, column c of the matrix product X.Y of two
\* column-major matrices: the sum over k of X[k*4+r] * Y[c*4+k].
RECURSIVE ProdSum(_, _, _, _, _)
ProdSum(X, Y, r, c, k) ==
  IF k < 0 THEN Rat(0)
  ELSE RAdd(ProdSum(X, Y, r, c, k - 1), RMul(X[k * 4 + r], Y[c * 4 + k]))

Product(X, Y) == [i \in Idx |-> ProdSum(X, Y, i % 4, i \div 4, 3)]

\* The 4x4 identity matrix: 1 on the diagonal (indices 0, 5, 10, 15).
IdentityMatrix == [i \in Idx |-> IF i % 5 = 0 THEN Rat(1) ELSE Rat(0)]

\* The angle -a: cos(-a) = cos(a) and sin(-a) = -sin(a).
NegAngle(a) == [a EXCEPT !.t = RNeg(a.t)]

\* The buffers other than the given ones.
Others(bs) == OpBufs \ bs

IsMult == pc = "returned" /\ call.op = "mat4mult"

\* p is k/scale to within tol/scale.
CloseTo(p, k, scale, tol) == Abs(p[1] * scale - k * p[2]) <= tol * p[2]

----------------------------------------------------------------------------
(* The claims about the matrix functions, under SpecOps *)

\* C1: mat4mult(A, B, out) with out a buffer other than both inputs leaves,
\* for every row r and column c, out[c*4+r] = sum over k of
\* A[k*4+r] * B[c*4+k].
C1_MultIsProduct ==
  (IsMult /\ call.out \notin {call.in1, call.in2}) =>
     \A r \in 0..3, c \in 0..3 :
        mem[call.out][c * 4 + r]
          = ProdSum(call.pre[call.in1], call.pre[call.in2], r, c, 3)

\* C1's case: a product with a separate output whose operands are two
\* buffers that do not commute.
C1_Witness ==
  /\ IsMult
  /\ call.out \notin {call.in1, call.in2}
  /\ call.in1 # call.in2
  /\ Product(call.pre[call.in1], call.pre[call.in2])
       # Product(call.pre[call.in2], call.pre[call.in1])

\* C2: when mat4mult's output buffer is its first input, its second input or
\* both, the output is the product of the inputs as they were before the
\* call, which is what the call with a separate output buffer gives.
C2_MultAliasSafe ==
  (IsMult /\ call.out \in {call.in1, call.in2}) =>
     /\ mem[call.out] = Product(call.pre[call.in1], call.pre[call.in2])
     /\ \A sep \in Others({call.in1, call.in2}) :
          mem[call.out] = mat4mult(call.pre, call.in1, call.in2, sep)[sep]

\* C2's case: mat4mult(T, MV, MV) as in main(): the output is the second
\* input, and the product differs from both inputs.
C2_Witness ==
  /\ IsMult
  /\ call.out = call.in2
  /\ call.in1 # call.in2
  /\ mem[call.out] # call.pre[call.in2]
  /\ mem[call.out] # call.pre[call.in1]

\* C3: the identity matrix is neutral on both sides of mat4mult: with a
\* buffer just set by mat4identity, the product of it and any matrix M, in
\* either order, is M; and the product of translate(1,2,3) and the identity
\* is translate(1,2,3).
C3_IdentityNeutral ==
  /\ (pc = "returned" /\ call.op = "mat4identity") =>
        \A X \in OpBufs, O \in OpBufs :
           /\ mat4mult(mem, call.out, X, O)[O] = mem[X]
           /\ mat4mult(mem, X, call.out, O)[O] = mem[X]
  /\ (pc = "returned" /\ call.op = "mat4translate") =>
        \A I \in Others({call.out}), O \in OpBufs :
           mat4mult(mat4identity(mem, I), call.out, I, O)[O] = mem[call.out]

\* C3's case: mat4identity has set a buffer, and another buffer holds a
\* matrix that is not the identity.
C3_Witness ==
  /\ pc = "returned"
  /\ call.op = "mat4identity"
  /\ mem[call.out] = IdentityMatrix
  /\ \E X \in OpBufs : mem[X] # IdentityMatrix

\* C4: mat4mult is associative: for the matrices A, B, C of the three
\* buffers, (A.B).C computed by two calls equals A.(B.C) computed by two
\* calls (in exact arithmetic).
C4_MultAssociative ==
  LET ab   == mat4mult(mem, "A", "B", "A")
      ab_c == mat4mult(ab, "A", "C", "A")["A"]
      bc   == mat4mult(mem, "B", "C", "C")
      a_bc == mat4mult(bc, "A", "C", "C")["C"]
  IN  ab_c = a_bc

\* C4's case: three matrices, one of them itself a product left by
\* mat4mult, of which neither pair commutes.
C4_Witness ==
  /\ IsMult
  /\ Product(mem["A"], mem["B"]) # Product(mem["B"], mem["A"])
  /\ Product(mem["B"], mem["C"]) # Product(mem["C"], mem["B"])
  /\ Product(Product(mem["A"], mem["B"]), mem["C"]) # ZeroMat

\* C5: the product of rotateZ(angle) and rotateZ(-angle) is the identity,
\* and so is the product of rotateY(angle) and rotateY(-angle), in either
\* order.
C5_RotationInverse ==
  /\ (pc = "returned" /\ call.op = "mat4rotz") =>
        \A X \in Others({call.out}), O \in OpBufs :
           LET m2 == mat4rotz(mem, X, NegAngle(call.angle))
           IN  /\ mat4mult(m2, call.out, X, O)[O] = IdentityMatrix
               /\ mat4mult(m2, X, call.out, O)[O] = IdentityMatrix
  /\ (pc = "returned" /\ call.op = "mat4roty") =>
        \A X \in Others({call.out}), O \in OpBufs :
           LET m2 == mat4roty(mem, X, NegAngle(call.angle))
           IN  /\ mat4mult(m2, call.out, X, O)[O] = IdentityMatrix
               /\ mat4mult(m2, X, call.out, O)[O] = IdentityMatrix

\* C5's case: mat4roty has left a rotation by an angle whose sine is not 0.
C5_Witness ==
  /\ pc = "returned"
  /\ call.op = "mat4roty"
  /\ sin(call.angle) # Rat(0)
  /\ mem[call.out] # IdentityMatrix

\* C6: translate(x, y, z) holds x, y, z at indices 12, 13, 14 and the
\* identity's elements at the other 13 indices.
C6_TranslateFrame ==
  (pc = "returned" /\ call.op = "mat4translate") =>
     /\ mem[call.out][12] = call.args[1]
     /\ mem[call.out][13] = call.args[2]
     /\ mem[call.out][14] = call.args[3]
     /\ \A i \in Idx \ {12, 13, 14} : mem[call.out][i] = IdentityMatrix[i]

\* C6's case: a translation with x, y, z all different from 0, written over
\* a buffer that held something else.
C6_Witness ==
  /\ pc = "returned"
  /\ call.op = "mat4translate"
  /\ \A k \in 1..3 : call.args[k] # Rat(0)
  /\ \E i \in Idx \ {12, 13, 14} : call.pre[call.out][i] # IdentityMatrix[i]

\* C7: scale(s) has s at all four diagonal indices 0, 5, 10 and 15, the
\* homogeneous element included, and 0 everywhere else.
C7_ScaleDiagonal ==
  (pc = "returned" /\ call.op = "mat4scale") =>
     \A i \in Idx :
        mem[call.out][i] = IF i \in {0, 5, 10, 15} THEN call.args[1] ELSE Rat(0)

\* C7's case: a scale by a factor other than 1, whose element 15 is the
\* factor and not 1.
C7_Witness ==
  /\ pc = "returned"
  /\ call.op = "mat4scale"
  /\ call.args[1] # Rat(1)
  /\ mem[call.out][15] = call.args[1]

\* C8: with f = 1/tan(vfov/2), perspective(vfov, aspect, znear, zfar) has
\* element 0 = f/aspect, element 5 = f, element 10 = -(zfar+znear)/(zfar-znear),
\* element 11 = -1, element 14 = -(2 zfar znear)/(zfar-znear) and 0 elsewhere,
\* element 15 included; perspective(pi/2, 1, 0.1, 100) has elements 0 and 5
\* equal to 1, element 10 within 1e-4 of -1.002002 and element 14 within 1e-4
\* of -0.2002002.
C8_Perspective ==
  (pc = "returned" /\ call.op = "mat4perspective") =>
     LET M      == mem[call.out]
         t      == tanHalf(call.angle)
         aspect == call.args[1]
         znear  == call.args[2]
         zfar   == call.args[3]
         span   == RSub(zfar, znear)
     IN  /\ RMul(RMul(M[0], aspect), t) = Rat(1)
         /\ RMul(M[5], t) = Rat(1)
         /\ RMul(M[10], span) = RNeg(RAdd(zfar, znear))
         /\ M[11] = Rat(-1)
         /\ RMul(M[14], span) = RNeg(RMul(Rat(2), RMul(zfar, znear)))
         /\ \A i \in Idx \ {0, 5, 10, 11, 14} : M[i] = Rat(0)
         /\ (/\ call.angle = HalfPi
             /\ aspect = Rat(1)
             /\ znear = <<1, 10>>
             /\ zfar = Rat(100)) =>
               /\ M[0] = Rat(1)
               /\ M[5] = Rat(1)
               /\ CloseTo(M[10], -1002002, 1000000, 100)
               /\ CloseTo(M[14], -2002002, 10000000, 1000)

\* C8's case: perspective(pi/2, 1, 0.1, 100) written over a buffer that held
\* something else.
C8_Witness ==
  /\ pc = "returned"
  /\ call.op = "mat4perspective"
  /\ call.angle = HalfPi
  /\ call.args = <<Rat(1), <<1, 10>>, Rat(100)>>
  /\ call.pre[call.out][15] # Rat(0)

\* The call of the state again, on a memory whose output buffer holds g.
Recall(g) ==
  LET m == [call.pre EXCEPT ![call.out] = g]
      M == call.out
      a == call.args
  IN  CASE call.op = "mat4identity" -> mat4identity(m, M)
        [] call.op = "mat4rotx" -> mat4rotx(m, M, call.angle)
        [] call.op = "mat4roty" -> mat4roty(m, M, call.angle)
        [] call.op = "mat4rotz" -> mat4rotz(m, M, call.angle)
        [] call.op = "mat4scale" -> mat4scale(m, M, a[1])
        [] call.op = "mat4translate" -> mat4translate(m, M, a[1], a[2], a[3])
        [] call.op = "mat4perspective" ->
             mat4perspective(m, M, call.angle, a[1], a[2], a[3])
        [] call.op = "mat4mult" -> mat4mult(m, call.in1, call.in2, M)

\* C9: every producing function writes all 16 elements of its output: the
\* matrix it leaves is the one it leaves whatever the buffer held before
\* (for mat4mult, when the output is not an input), and it leaves the other
\* buffers as they were; mat4rotz(MV, pi/2) followed by
\* mat4translate(MV, 0, 0, -1.2) leaves the translation alone.
C9_FullOverwrite ==
  /\ (pc = "returned" /\ call.out \notin {call.in1, call.in2}) =>
        /\ \A g \in InputMats \cup {ZeroMat, IdentityMatrix} :
             Recall(g)[call.out] = mem[call.out]
        /\ \A X \in Others({call.out}) : mem[X] = call.pre[X]
  /\ \A M \in OpBufs :
        mat4translate(mat4rotz(mem, M, HalfPi), M,
                      Rat(0), Rat(0), <<-6, 5>>)[M]
          = [i \in Idx |-> IF i = 14 THEN <<-6, 5>> ELSE IdentityMatrix[i]]

\* C9's case: a rotation written over a dense matrix, none of whose
\* off-diagonal elements survives.
C9_Witness ==
  /\ pc = "returned"
  /\ call.op = "mat4rotx"
  /\ call.pre[call.out][12] # Rat(0)
  /\ call.pre[call.out][1] # Rat(0)
  /\ mem[call.out][12] = Rat(0)
  /\ mem[call.out][1] = Rat(0)

----------------------------------------------------------------------------
(* main(): the matrices and the render loop.  pc is the line of the next   *)
(* statement.                                                              *)

Buffers == {"MV", "P", "LV", "T", "R", "Rx", "Rz"}

\* What myMouseRotator.poll and myKeyRotator.poll may deliver.
PollAngles == {AngleOfTan(Rat(t)) : t \in 0..MaxPoll}

\* What glfwGetTime may deliver, as the angle it is used as.
TimeAngles == {AngleOfTan(Rat(t)) : t \in 0..MaxClock}

\* The arrays are declared uninitialised (they hold any g) and the rotators
\* are at rest.
Init ==
  /\ \E g \in InputMats : mem = [b \in Buffers |-> g]
  /\ pc = "L209"
  /\ call = NoCall
  /\ mouse = [phi |-> ZeroAngle, theta |-> ZeroAngle]
  /\ key = [phi |-> ZeroAngle, theta |-> ZeroAngle]
  /\ time \in TimeAngles
  /\ uni = [LV |-> ZeroMat, MV |-> ZeroMat, P |-> ZeroMat]

\* What a statement on the matrices alone leaves as it is.
rest == <<call, mouse, key, time, uni>>

\* float MV[16]; mat4identity(MV); ... float Rz[16]; mat4identity(Rz);
DeclareMatrices ==
  /\ pc = "L209"
  /\ pc' = "L301"
  /\ mem' = LET m1 == mat4identity(mem, "MV")
                m2 == mat4identity(m1, "P")
                m3 == mat4identity(m2, "LV")
                m4 == mat4identity(m3, "T")
                m5 == mat4identity(m4, "R")
                m6 == mat4identity(m5, "Rx")
            IN  mat4identity(m6, "Rz")
  /\ UNCHANGED rest

\* while(!glfwWindowShouldClose(window))
LoopTest ==
  /\ pc = "L301"
  /\ \/ pc' = "L318"
     \/ pc' = "L409"
  /\ UNCHANGED <<mem, call, mouse, key, time, uni>>

\* time = (float)glfwGetTime();
ReadTime ==
  /\ pc = "L318"
  /\ pc' = "L326"
  /\ time' \in TimeAngles
  /\ UNCHANGED <<mem, call, mouse, key, uni>>

\* myMouseRotator.poll(window);
PollMouse ==
  /\ pc = "L326"
  /\ pc' = "L328"
  /\ mouse' \in [phi : PollAngles, theta : PollAngles]
  /\ UNCHANGED <<mem, call, key, time, uni>>

\* mat4rotz(Rz, myMouseRotator.phi);
RotzMouse ==
  /\ pc = "L328"
  /\ pc' = "L329"
  /\ mem' = mat4rotz(mem, "Rz", mouse.phi)
  /\ UNCHANGED rest

\* The statement at line 329 with the key rotator for the mouse rotator.
RotxMouse_key ==
  /\ pc = "L329"
  /\ pc' = "L331"
  /\ mem' = mat4rotx(mem, "Rx", key.theta)
  /\ UNCHANGED rest

\* mat4rotx(Rx, myMouseRotator.theta);
RotxMouse ==
  /\ pc = "L329"
  /\ pc' = "L331"
  /\ mem' = mat4rotx(mem, "Rx", mouse.theta)
  /\ UNCHANGED rest

\* mat4mult(Rz, Rx, LV);
MultLV ==
  /\ pc = "L331"
  /\ pc' = "L333"
  /\ mem' = mat4mult(mem, "Rz", "Rx", "LV")
  /\ UNCHANGED rest

\* glUniformMatrix4fv(location_LV, 1, GL_FALSE, LV);
UploadLV ==
  /\ pc = "L333"
  /\ pc' = "L335"
  /\ uni' = [uni EXCEPT !.LV = mem["LV"]]
  /\ UNCHANGED <<mem, call, mouse, key, time>>

\* mat4identity(MV);
IdentityMV ==
  /\ pc = "L335"
  /\ pc' = "L337"
  /\ mem' = mat4identity(mem, "MV")
  /\ UNCHANGED rest

\* myKeyRotator.poll(window);
PollKey ==
  /\ pc = "L337"
  /\ pc' = "L339"
  /\ key' \in [phi : PollAngles, theta : PollAngles]
  /\ UNCHANGED <<mem, call, mouse, time, uni>>

\* mat4roty(Rz, myKeyRotator.phi);
RotyKey ==
  /\ pc = "L339"
  /\ pc' = "L340"
  /\ mem' = mat4roty(mem, "Rz", key.phi)
  /\ UNCHANGED rest

\* mat4rotx(Rx, myKeyRotator.theta);
RotxKey ==
  /\ pc = "L340"
  /\ pc' = "L342"
  /\ mem' = mat4rotx(mem, "Rx", key.theta)
  /\ UNCHANGED rest

\* mat4mult(Rz, Rx, MV);
MultMV ==
  /\ pc = "L342"
  /\ pc' = "L344"
  /\ mem' = mat4mult(mem, "Rz", "Rx", "MV")
  /\ UNCHANGED rest

\* mat4translate(T, 0, 0, -5.0);
TranslateT ==
  /\ pc = "L344"
  /\ pc' = "L345"
  /\ mem' = mat4translate(mem, "T", Rat(0), Rat(0), Rat(-5))
  /\ UNCHANGED rest

\* mat4mult(T, MV, MV);
MultTMV ==
  /\ pc = "L345"
  /\ pc' = "L347"
  /\ mem' = mat4mult(mem, "T", "MV", "MV")
  /\ UNCHANGED rest

\* mat4perspective(P, M_PI/6, 1, 0.1, 100.0);
PerspectiveP ==
  /\ pc = "L347"
  /\ pc' = "L349"
  /\ mem' = mat4perspective(mem, "P", SixthPi, Rat(1), <<1, 10>>, Rat(100))
  /\ UNCHANGED rest

\* glUniformMatrix4fv(location_MV, ..., MV);
\* glUniformMatrix4fv(location_P, ..., P);  dino.render();
UploadDino ==
  /\ pc = "L349"
  /\ pc' = "L362"
  /\ uni' = [uni EXCEPT !.MV = mem["MV"], !.P = mem["P"]]
  /\ UNCHANGED <<mem, call, mouse, key, time>>

\* mat4rotz(MV, M_PI/2);
RotzMV ==
  /\ pc = "L362"
  /\ pc' = "L364"
  /\ mem' = mat4rotz(mem, "MV", HalfPi)
  /\ UNCHANGED rest

\* mat4translate(MV, 0, 0, -1.2);
TranslateMV ==
  /\ pc = "L364"
  /\ pc' = "L365"
  /\ mem' = mat4translate(mem, "MV", Rat(0), Rat(0), <<-6, 5>>)
  /\ UNCHANGED rest

\* mat4roty(R, time);
RotyR ==
  /\ pc = "L365"
  /\ pc' = "L366"
  /\ mem' = mat4roty(mem, "R", time)
  /\ UNCHANGED rest

\* mat4translate(T, 0.0, 0.0, -5.0);
TranslateT2 ==
  /\ pc = "L366"
  /\ pc' = "L368"
  /\ mem' = mat4translate(mem, "T", Rat(0), Rat(0), Rat(-5))
  /\ UNCHANGED rest

\* mat4mult(R, MV, MV);
MultRMV ==
  /\ pc = "L368"
  /\ pc' = "L369"
  /\ mem' = mat4mult(mem, "R", "MV", "MV")
  /\ UNCHANGED rest

\* mat4mult(T, MV, MV);
MultTMV2 ==
  /\ pc = "L369"
  /\ pc' = "L374"
  /\ mem' = mat4mult(mem, "T", "MV", "MV")
  /\ UNCHANGED rest

\* glUniformMatrix4fv(location_MV, ..., MV);
\* glUniformMatrix4fv(location_P, ..., P);  earth.render();
UploadEarth ==
  /\ pc = "L374"
  /\ pc' = "L396"
  /\ uni' = [uni EXCEPT !.MV = mem["MV"], !.P = mem["P"]]
  /\ UNCHANGED <<mem, call, mouse, key, time>>

\* glfwSwapBuffers(window); glfwPollEvents(); ... and back to the loop test
EndFrame ==
  /\ pc = "L396"
  /\ pc' = "L301"
  /\ UNCHANGED <<mem, call, mouse, key, time, uni>>

Next ==
  \/ DeclareMatrices
  \/ LoopTest
  \/ ReadTime
  \/ PollMouse
  \/ RotzMouse
  \/ RotxMouse
  \/ MultLV
  \/ UploadLV
  \/ IdentityMV
  \/ PollKey
  \/ RotyKey
  \/ RotxKey
  \/ MultMV
  \/ TranslateT
  \/ MultTMV
  \/ PerspectiveP
  \/ UploadDino
  \/ RotzMV
  \/ TranslateMV
  \/ RotyR
  \/ TranslateT2
  \/ MultRMV
  \/ MultTMV2
  \/ UploadEarth
  \/ EndFrame

Spec == Init /\ [][Next]_vars

----------------------------------------------------------------------------
(* The claim about the render loop, under Spec *)

\* The rotation by angle a about the z axis, column-major.
RotZMatrix(a) ==
  <<cos(a), sin(a), Rat(0), Rat(0),
    RNeg(sin(a)), cos(a), Rat(0), Rat(0),
    Rat(0), Rat(0), Rat(1), Rat(0),
    Rat(0), Rat(0), Rat(0), Rat(1)>>

\* The rotation by angle a about the x axis, column-major.
RotXMatrix(a) ==
  <<Rat(1), Rat(0), Rat(0), Rat(0),
    Rat(0), cos(a), sin(a), Rat(0),
    Rat(0), RNeg(sin(a)), cos(a), Rat(0),
    Rat(0), Rat(0), Rat(0), Rat(1)>>

\* The matrix of a 16-tuple, indexed from 0.
OfTuple(t) == [i \in Idx |-> t[i + 1]]

\* From the upload of LV to the end of the frame, and on to the next poll of
\* the mouse rotator.
LVUploaded ==
  pc \in {"L335", "L337", "L339", "L340", "L342", "L344", "L345", "L347",
          "L349", "L362", "L364", "L365", "L366", "L368", "L369", "L374",
          "L396"}

\* C10: in every frame, the LV the shader holds from its upload on is the
\* product of rotateZ(mouse.phi) and rotateX(mouse.theta) of that frame's
\* mouse angles, whatever the key rotator's angles and the time are, and
\* whatever the scratch buffers Rz and Rx hold since.
C10_LightViewFromMouse ==
  LVUploaded =>
    uni.LV = Product(OfTuple(RotZMatrix(mouse.phi)),
                     OfTuple(RotXMatrix(mouse.theta)))

\* C10's case: in a frame after the first (the shader holds an MV of an
\* earlier frame), Rz and Rx have been overwritten with the key rotator's
\* rotations, which differ from the mouse rotator's.
C10_Witness ==
  /\ pc = "L344"
  /\ uni.MV # ZeroMat
  /\ sin(mouse.phi) # Rat(0)
  /\ sin(mouse.theta) # Rat(0)
  /\ sin(key.phi) # Rat(0)
  /\ key.phi # mouse.phi
  /\ key.theta # mouse.theta
  /\ mem["Rz"] # OfTuple(RotZMatrix(mouse.phi))
  /\ mem["Rx"] # OfTuple(RotXMatrix(mouse.theta))
  /\ uni.LV # IdentityMatrix

=============================================================================
